---- MODULE Spec2Model ----
(***************************************************************************)
(* Model of bot.py: a Telegram bot that stores file records in a MongoDB   *)
(* collection, hands out deep links to them, gates redemption on channel   *)
(* membership and lets the administrator revoke a link.                    *)
(*                                                                         *)
(* Strings are sequences of chunks.  The chunks "file_" and "revoke_"      *)
(* stand for those literal substrings; every other chunk is text in which  *)
(* neither occurs, so str.startswith and str.replace act chunk by chunk.   *)
(*                                                                         *)
(* Updates are handled one at a time (Application.builder() leaves         *)
(* concurrent_updates off); a handler advances one external call per step. *)
(* Every awaited transport call and every store call either returns or     *)
(* raises; an exception that no try block catches ends the handler         *)
(* (pc = "raised").                                                        *)
(*                                                                         *)
(* The job queue starts empty and run_once is the last statement of        *)
(* handle_media, behind the call of generate_link, which raises: no job is *)
(* ever armed, so delete_message, the job's callback, never runs under     *)
(* Spec.  SpecCleanup runs the callback on job queues drawn from a bounded *)
(* set, the way a function is exercised on bounded inputs.                 *)
(***************************************************************************)
EXTENDS Naturals, Sequences, FiniteSets

VARIABLES
    FORCE_SUB_CHANNELS,   \* configured channel list, fixed at start-up
    files_collection,     \* the 'files' collection, in natural order
    jobs,                 \* job queue: data of the armed run_once jobs
    pc,                   \* position of the handler of the current update
    update,               \* the update being handled
    channel_i,            \* is_subscribed: index of the next channel
    answers,              \* is_subscribed: what each query of the call gave; kept
                          \* until start goes on past a True result
    asked,                \* is_subscribed: the channel each of those queries named
    subscribed,           \* is_subscribed's return value, <<>> before it returns
    file_id,              \* local file_id of start / handle_media / revoke_link
    file_doc,             \* start: result of find_one, <<>> is None
    out,                  \* transport calls issued while handling this update
    ops,                  \* store and job-queue calls made while handling this update
    files_before,         \* files_collection when this update was dispatched
    revoked_ok,           \* history: file ids a revoke has matched and updated
    reject_seen,          \* history: what each kind of rejected redemption showed
    cleanup               \* delete_message calls made by jobs that have run

vars == <<FORCE_SUB_CHANNELS, files_collection, jobs, pc, update, channel_i,
          answers, asked, subscribed, file_id, file_doc, out, ops, files_before,
          revoked_ok, reject_seen, cleanup>>

----------------------------------------------------------------------------
(* Bounds and input domains *)

MaxChannels == 2
MaxDocs == 2

ADMIN_ID == 1
Users == {ADMIN_ID, 2}

\* Channel identifiers as they may stand in the environment: an @username
\* or a numeric chat id (both are accepted by get_chat_member).
ChannelPool == << <<"@", "a">>, <<"-", "100">>, <<"@", "b">> >>

ChannelLists ==
    { SubSeq(ChannelPool, 1, n) :
        n \in { m \in 0..MaxChannels : m <= Len(ChannelPool) } }

\* File identifiers: Telegram file ids are base64url text and may contain
\* the letters of a marker.
FileIds == { <<"x">>, <<"y">>, <<"file_", "x">> }
NewFileId == <<"z">>

MessageIds == {"m1"}

StartArgs ==
    { <<>>,
      << <<"file_", "x">> >>,
      << <<"file_", "y">> >>,
      << <<"file_", "file_", "x">> >>,
      << <<"file_", "z">> >>,
      << <<"z">> >> }

CallbackData ==
    { <<"revoke_", "x">>, <<"revoke_", "y">>,
      <<"revoke_", "file_", "x">>, <<"revoke_", "z">>,
      <<"revoke_", "revoke_", "x">> }

NoMedia == [document |-> <<>>, photo |-> <<>>, video |-> <<>>]

MediaMessages ==
    { [NoMedia EXCEPT !.document = <<f>>] : f \in FileIds \cup {NewFileId} }
    \cup { [NoMedia EXCEPT !.photo = <<NewFileId, f>>] : f \in FileIds }
    \cup { [NoMedia EXCEPT !.video = <<f>>] : f \in FileIds }

\* What one get_chat_member call can give: a ChatMember status, or an
\* exception ("ERROR").
ChatMemberStatuses ==
    {"creator", "administrator", "member", "restricted", "left", "kicked"}
QueryOutcomes == ChatMemberStatuses \cup {"ERROR"}

----------------------------------------------------------------------------
(* Strings *)

startswith(s, prefix) == Len(s) >= 1 /\ s[1] = prefix

\* str.replace(old, ''): every occurrence of old is removed.
replace(s, old) == SelectSeq(s, LAMBDA c : c # old)

----------------------------------------------------------------------------
(* The store *)

\* The text generate_link is written to build for a file id.
link_text(fid) == <<"https://t.me/", "{context.bot.username}", "?start=", "file_">> \o fid

Doc(fid, link, rev, ts) ==
    [file_id |-> fid, link |-> link, revoked |-> rev, timestamp |-> ts]

MatchingIndexes(coll, fid) == { k \in DOMAIN coll : coll[k].file_id = fid }

FirstIndex(S) == CHOOSE k \in S : \A j \in S : k <= j

\* find_one({'file_id': fid}): the first matching document, or None.
find_one(coll, fid) ==
    IF MatchingIndexes(coll, fid) = {} THEN <<>>
    ELSE << coll[FirstIndex(MatchingIndexes(coll, fid))] >>

\* Variant of update_one: the flag is flipped.
update_one_flips(coll, fid) ==
    IF MatchingIndexes(coll, fid) = {} THEN coll
    ELSE [coll EXCEPT ![FirstIndex(MatchingIndexes(coll, fid))].revoked = ~@]

\* Variant of update_one: the update also sets the timestamp anew.
update_one_restamps(coll, fid) ==
    IF MatchingIndexes(coll, fid) = {} THEN coll
    ELSE [coll EXCEPT ![FirstIndex(MatchingIndexes(coll, fid))] =
            [@ EXCEPT !.revoked = TRUE, !.timestamp = 0]]

\* update_one({'file_id': fid}, {'$set': {'revoked': True}}): the first
\* matching document gets revoked = True; nothing changes without a match.
update_one(coll, fid) ==
    IF MatchingIndexes(coll, fid) = {} THEN coll
    ELSE [coll EXCEPT ![FirstIndex(MatchingIndexes(coll, fid))].revoked = TRUE]

insert_one(coll, doc) == Append(coll, doc)

\* Stores the process may find at start-up: records of the documented
\* shape, one per file id, stamped in insertion order.
InitialStores ==
    { s \in UNION { [1..n -> [file_id : FileIds, revoked : BOOLEAN]] : n \in 0..MaxDocs } :
        \A a, b \in DOMAIN s : a # b => s[a].file_id # s[b].file_id }

StoreOf(s) ==
    [k \in DOMAIN s |-> Doc(s[k].file_id, link_text(s[k].file_id), s[k].revoked, k)]

----------------------------------------------------------------------------
(* The transport: every call a handler issues is appended to out *)

Call(op, chat, text, markup, document) ==
    [op |-> op, chat |-> chat, text |-> text, markup |-> markup,
     document |-> document]

Button(label, url, callback_data) ==
    [label |-> label, url |-> url, callback_data |-> callback_data]

reply_text(u, text, markup) == Call("reply_text", u.user, text, markup, <<>>)

send_document(chat, document) ==
    Call("send_document", chat, <<>>, <<>>, document)

query_answer(u) == Call("answer", u.user, <<>>, <<>>, <<>>)

edit_message_text(u, text) ==
    Call("edit_message_text", u.user, text, <<>>, <<>>)

\* Where a handler stands after an awaited or store call: at next when the
\* call returned, ended by the exception when it raised.
After(ok, next) == IF ok THEN next ELSE "raised"

----------------------------------------------------------------------------
(* Helpers of the handlers *)

is_admin(user) == user = ADMIN_ID

\* Variants of channel_ok: an exception passes for a satisfied channel;
\* the status list is one entry too long.
channel_ok_except_passes(r) ==
    IF r = "ERROR" THEN TRUE
    ELSE r \in {"member", "administrator", "creator"}

channel_ok_restricted(r) ==
    IF r = "ERROR" THEN FALSE
    ELSE r \in {"member", "administrator", "creator", "restricted"}

\* is_subscribed, one channel: False on an exception and on a status
\* outside the list.
channel_ok(r) ==
    IF r = "ERROR" THEN FALSE
    ELSE r \in {"member", "administrator", "creator"}

\* Variant of generate_link: the bot's name is at hand and the link is built.
generate_link_returns(fid) == [raised |-> FALSE, value |-> link_text(fid)]

\* generate_link reads the name context, which is neither a parameter nor a
\* module global: the call raises NameError.
generate_link(fid) == [raised |-> TRUE, value |-> <<>>]

\* start: one button per configured channel, url built from channel[1:].
subscribe_keyboard(chans) ==
    [k \in DOMAIN chans |->
        Button(<<"Subscribe to ">> \o chans[k],
               <<"https://t.me/">> \o Tail(chans[k]), <<>>)]

has_file_arg(args) == args # <<>> /\ startswith(args[1], "file_")

start_file_id(args) == replace(args[1], "file_")

\* Variant of deliverable: the revoked flag is not looked at.
deliverable_any_record(doc) == doc # <<>>

deliverable(doc) == doc # <<>> /\ ~doc[1].revoked

\* handle_media: the file id of the message's document, else of its
\* largest photo size, else of its video; <<>> when it has none of them.
media_file_id(message) ==
    IF message.document # <<>> THEN message.document
    ELSE IF message.photo # <<>> THEN <<message.photo[Len(message.photo)]>>
    ELSE IF message.video # <<>> THEN message.video
    ELSE <<>>

revoke_keyboard(fid) ==
    << Button(<<"Revoke Link">>, <<>>, <<"revoke_">> \o fid) >>

revoke_file_id(data) == replace(data, "revoke_")

----------------------------------------------------------------------------
(* Initial state *)

NoUpdate ==
    [kind |-> "none", user |-> 0, args |-> <<>>, message |-> NoMedia,
     data |-> <<>>, message_id |-> "m0"]

NoRejects == [c \in {"unknown", "revoked"} |-> {}]

Init ==
    /\ FORCE_SUB_CHANNELS \in ChannelLists
    /\ files_collection \in { StoreOf(s) : s \in InitialStores }
    /\ jobs = <<>>
    /\ pc = "idle"
    /\ update = NoUpdate
    /\ channel_i = 1
    /\ answers = <<>>
    /\ asked = <<>>
    /\ subscribed = <<>>
    /\ file_id = <<>>
    /\ file_doc = <<>>
    /\ out = <<>>
    /\ ops = <<>>
    /\ files_before = files_collection
    /\ revoked_ok = {}
    /\ reject_seen = NoRejects
    /\ cleanup = <<>>

----------------------------------------------------------------------------
(* Dispatch of an update to the handler registered for it *)

Updates ==
    { [NoUpdate EXCEPT !.kind = "start", !.user = u, !.args = a, !.message_id = m] :
        u \in Users, a \in StartArgs, m \in MessageIds }
    \cup { [NoUpdate EXCEPT !.kind = "upload", !.user = u, !.message_id = m] :
        u \in Users, m \in MessageIds }
    \cup { [NoUpdate EXCEPT !.kind = "media", !.user = u, !.message = g, !.message_id = m] :
        u \in Users, g \in MediaMessages, m \in MessageIds }
    \cup { [NoUpdate EXCEPT !.kind = "callback", !.user = u, !.data = d, !.message_id = m] :
        u \in Users, d \in CallbackData, m \in MessageIds }

Entry(kind) ==
    CASE kind = "start" -> "is_subscribed"
      [] kind = "upload" -> "upload"
      [] kind = "media" -> "handle_media"
      [] kind = "callback" -> "revoke_link"

\* The locals and per-update records of a handler that is not running.
Cleared ==
    /\ channel_i' = 1
    /\ answers' = <<>>
    /\ asked' = <<>>
    /\ subscribed' = <<>>
    /\ file_id' = <<>>
    /\ file_doc' = <<>>
    /\ out' = <<>>
    /\ ops' = <<>>
    /\ files_before' = files_collection

\* Variant of Dispatch: the application is built with concurrent_updates
\* on, so that the administrator's revoke of a token is handled while a
\* start handler is suspended at an await between its lookup and its send.
Dispatch_concurrent ==
    \/ /\ pc = "idle"
       /\ \E u \in Updates :
           /\ update' = u
           /\ pc' = Entry(u.kind)
       /\ Cleared
       /\ UNCHANGED <<FORCE_SUB_CHANNELS, cleanup, files_collection, jobs,
                      revoked_ok, reject_seen>>
    \/ /\ pc \in {"start_found", "start_send"}
       /\ \E d \in CallbackData :
           /\ files_collection' = update_one(files_collection, revoke_file_id(d))
           /\ revoked_ok' =
               IF MatchingIndexes(files_collection, revoke_file_id(d)) # {}
               THEN revoked_ok \cup {revoke_file_id(d)} ELSE revoked_ok
       /\ UNCHANGED <<FORCE_SUB_CHANNELS, cleanup, jobs, pc, update, channel_i,
                      answers, asked, subscribed, file_id, file_doc, out, ops,
                      files_before, reject_seen>>

\* The application takes the next update and calls its handler.
Dispatch ==
    /\ pc = "idle"
    /\ \E u \in Updates :
        /\ update' = u
        /\ pc' = Entry(u.kind)
    /\ Cleared
    /\ UNCHANGED <<FORCE_SUB_CHANNELS, cleanup, files_collection, jobs, revoked_ok, reject_seen>>

\* The handler returned, or raised and the application logged the
\* exception: the application is ready for the next update.
handler_ends ==
    /\ pc \in {"done", "raised"}
    /\ pc' = "idle"
    /\ update' = NoUpdate
    /\ Cleared
    /\ UNCHANGED <<FORCE_SUB_CHANNELS, cleanup, files_collection, jobs, revoked_ok, reject_seen>>

----------------------------------------------------------------------------
(* is_subscribed, called by start *)

\* Variant of is_subscribed_query: an unsatisfied channel is noted and the
\* loop goes on to the next channel instead of returning.
is_subscribed_query_goes_on ==
    /\ pc = "is_subscribed"
    /\ channel_i <= Len(FORCE_SUB_CHANNELS)
    /\ \E r \in QueryOutcomes :
        /\ answers' = Append(answers, r)
        /\ asked' = Append(asked, FORCE_SUB_CHANNELS[channel_i])
        /\ channel_i' = channel_i + 1
        /\ subscribed' = IF channel_ok(r) THEN subscribed ELSE <<FALSE>>
    /\ UNCHANGED <<FORCE_SUB_CHANNELS, cleanup, files_collection, jobs, pc, update,
                   file_id, file_doc, out, ops, files_before, revoked_ok,
                   reject_seen>>

\* One pass of the loop body: query the next channel; return False on an
\* exception or an unsatisfying status, else go on to the next channel.
is_subscribed_query ==
    /\ pc = "is_subscribed"
    /\ channel_i <= Len(FORCE_SUB_CHANNELS)
    /\ \E r \in QueryOutcomes :
        /\ answers' = Append(answers, r)
        /\ asked' = Append(asked, FORCE_SUB_CHANNELS[channel_i])
        /\ IF channel_ok(r)
           THEN /\ channel_i' = channel_i + 1
                /\ UNCHANGED <<subscribed, pc>>
           ELSE /\ subscribed' = <<FALSE>>
                /\ pc' = "start"
                /\ UNCHANGED channel_i
    /\ UNCHANGED <<FORCE_SUB_CHANNELS, cleanup, files_collection, jobs, update, file_id,
                   file_doc, out, ops, files_before, revoked_ok, reject_seen>>

\* The loop is exhausted: return True.
is_subscribed_return ==
    /\ pc = "is_subscribed"
    /\ channel_i > Len(FORCE_SUB_CHANNELS)
    /\ subscribed' = <<TRUE>>
    /\ pc' = "start"
    /\ UNCHANGED <<FORCE_SUB_CHANNELS, cleanup, files_collection, jobs, update, channel_i,
                   answers, asked, file_id, file_doc, out, ops, files_before,
                   revoked_ok, reject_seen>>

----------------------------------------------------------------------------
(* start *)

SubscribePrompt == <<"Please subscribe to all our channels to use this bot.">>
AccessingText == <<"Accessing file...">>
LinkInvalidText == <<"Link expired or invalid.">>
GreetingText ==
    <<"Hello ", "{user.mention_html()}", "! Use /upload to share files (admin only).">>

\* not subscribed: prompt with one button per channel, then return.
start_not_subscribed ==
    /\ pc = "start"
    /\ subscribed = <<FALSE>>
    /\ out' = Append(out, reply_text(update, SubscribePrompt,
                                     subscribe_keyboard(FORCE_SUB_CHANNELS)))
    /\ \E ok \in BOOLEAN : pc' = After(ok, "done")
    /\ UNCHANGED <<FORCE_SUB_CHANNELS, cleanup, files_collection, jobs, update, channel_i,
                   answers, asked, subscribed, file_id, file_doc, ops, files_before,
                   revoked_ok, reject_seen>>

\* Variant of start_find_one: the return after the prompt is missing, the
\* lookup runs whatever is_subscribed gave.
start_find_one_ungated ==
    /\ pc = "start"
    /\ subscribed # <<>>
    /\ has_file_arg(update.args)
    /\ file_id' = start_file_id(update.args)
    /\ ops' = Append(ops, <<"find_one", file_id'>>)
    /\ \E ok \in BOOLEAN :
        /\ pc' = After(ok, "start_found")
        /\ file_doc' = IF ok THEN find_one(files_collection, file_id') ELSE <<>>
    /\ UNCHANGED <<FORCE_SUB_CHANNELS, cleanup, files_collection, jobs, update, channel_i,
                   answers, asked, subscribed, out, files_before, revoked_ok, reject_seen>>

\* subscribed, and the first argument starts with file_: strip the marker
\* and look the record up.
start_find_one ==
    /\ pc = "start"
    /\ subscribed = <<TRUE>>
    /\ has_file_arg(update.args)
    /\ file_id' = start_file_id(update.args)
    /\ ops' = Append(ops, <<"find_one", file_id'>>)
    /\ \E ok \in BOOLEAN :
        /\ pc' = After(ok, "start_found")
        /\ file_doc' = IF ok THEN find_one(files_collection, file_id') ELSE <<>>
    /\ answers' = <<>>
    /\ asked' = <<>>
    /\ UNCHANGED <<FORCE_SUB_CHANNELS, cleanup, files_collection, jobs, update, channel_i,
                   subscribed, out, files_before, revoked_ok, reject_seen>>

\* subscribed, no file argument: greet.
start_greeting ==
    /\ pc = "start"
    /\ subscribed = <<TRUE>>
    /\ ~has_file_arg(update.args)
    /\ out' = Append(out, reply_text(update, GreetingText, <<>>))
    /\ \E ok \in BOOLEAN : pc' = After(ok, "done")
    /\ answers' = <<>>
    /\ asked' = <<>>
    /\ UNCHANGED <<FORCE_SUB_CHANNELS, cleanup, files_collection, jobs, update, channel_i,
                   subscribed, file_id, file_doc, ops, files_before,
                   revoked_ok, reject_seen>>

\* record found and not revoked: announce ...
start_accessing ==
    /\ pc = "start_found"
    /\ deliverable(file_doc)
    /\ out' = Append(out, reply_text(update, AccessingText, <<>>))
    /\ \E ok \in BOOLEAN : pc' = After(ok, "start_send")
    /\ UNCHANGED <<FORCE_SUB_CHANNELS, cleanup, files_collection, jobs, update, channel_i,
                   answers, asked, subscribed, file_id, file_doc, ops, files_before,
                   revoked_ok, reject_seen>>

\* ... and send the file to the requester.
start_send_document ==
    /\ pc = "start_send"
    /\ out' = Append(out, send_document(update.user, file_doc[1].file_id))
    /\ \E ok \in BOOLEAN : pc' = After(ok, "done")
    /\ UNCHANGED <<FORCE_SUB_CHANNELS, cleanup, files_collection, jobs, update, channel_i,
                   answers, asked, subscribed, file_id, file_doc, ops, files_before,
                   revoked_ok, reject_seen>>

\* What a handled update shows from outside: the calls issued, with the chat
\* told apart only as the requester's or another, and the writes made to
\* the registry and the job queue.
Observation(calls, u, made) ==
    [calls |-> [k \in DOMAIN calls |->
                    [calls[k] EXCEPT !.chat = IF calls[k].chat = u.user
                                              THEN "requester" ELSE "other"]],
     effects |-> SelectSeq(made, LAMBDA o : o[1] # "find_one")]

\* Variant of start_link_invalid: a revoked record is reported as such.
start_link_invalid_tells_revoked ==
    /\ pc = "start_found"
    /\ ~deliverable(file_doc)
    /\ out' = Append(out, reply_text(update,
                 IF file_doc = <<>> THEN LinkInvalidText ELSE <<"Link revoked.">>,
                 <<>>))
    /\ \E ok \in BOOLEAN : pc' = After(ok, "done")
    /\ reject_seen' =
        [reject_seen EXCEPT ![IF file_doc = <<>> THEN "unknown" ELSE "revoked"] =
            @ \cup {Observation(out', update, ops)}]
    /\ UNCHANGED <<FORCE_SUB_CHANNELS, cleanup, files_collection, jobs, update, channel_i,
                   answers, asked, subscribed, file_id, file_doc, ops, files_before,
                   revoked_ok>>

\* no record, or a revoked one: say so.
start_link_invalid ==
    /\ pc = "start_found"
    /\ ~deliverable(file_doc)
    /\ out' = Append(out, reply_text(update, LinkInvalidText, <<>>))
    /\ \E ok \in BOOLEAN : pc' = After(ok, "done")
    /\ reject_seen' =
        [reject_seen EXCEPT ![IF file_doc = <<>> THEN "unknown" ELSE "revoked"] =
            @ \cup {Observation(out', update, ops)}]
    /\ UNCHANGED <<FORCE_SUB_CHANNELS, cleanup, files_collection, jobs, update, channel_i,
                   answers, asked, subscribed, file_id, file_doc, ops, files_before,
                   revoked_ok>>

----------------------------------------------------------------------------
(* upload *)

upload ==
    /\ pc = "upload"
    /\ out' = Append(out, reply_text(update,
                 IF ~is_admin(update.user)
                 THEN <<"Only admin can upload.">>
                 ELSE <<"Send me a file, photo, or video to upload.">>, <<>>))
    /\ \E ok \in BOOLEAN : pc' = After(ok, "done")
    /\ UNCHANGED <<FORCE_SUB_CHANNELS, cleanup, files_collection, jobs, update, channel_i,
                   answers, asked, subscribed, file_id, file_doc, ops, files_before,
                   revoked_ok, reject_seen>>

----------------------------------------------------------------------------
(* handle_media *)

UploadDeniedText == <<"Only admin can upload files.">>
UnsupportedText == <<"Unsupported file type.">>
UploadedText(link) == <<"File uploaded! Share this link: ">> \o link

\* A caller other than the administrator: refuse and return.
handle_media_not_admin ==
    /\ pc = "handle_media"
    /\ ~is_admin(update.user)
    /\ out' = Append(out, reply_text(update, UploadDeniedText, <<>>))
    /\ \E ok \in BOOLEAN : pc' = After(ok, "done")
    /\ UNCHANGED <<FORCE_SUB_CHANNELS, cleanup, files_collection, jobs, update, channel_i,
                   answers, asked, subscribed, file_id, file_doc, ops, files_before,
                   revoked_ok, reject_seen>>

\* The administrator: take the file id, build the link, insert the record,
\* reply with the link and the revoke button, arm the cleanup job.
handle_media_admin ==
    /\ pc = "handle_media"
    /\ is_admin(update.user)
    /\ IF media_file_id(update.message) = <<>>
       THEN /\ out' = Append(out, reply_text(update, UnsupportedText, <<>>))
            /\ \E ok \in BOOLEAN : pc' = After(ok, "done")
            /\ UNCHANGED <<files_collection, jobs, file_id, ops>>
       ELSE LET fid == media_file_id(update.message)[1]
                link == generate_link(fid)
            IN  /\ file_id' = fid
                /\ IF link.raised
                   THEN /\ pc' = "raised"
                        /\ UNCHANGED <<files_collection, jobs, out, ops>>
                   ELSE /\ \E inserted, replied \in BOOLEAN :
                            IF ~inserted
                            THEN /\ pc' = "raised"
                                 /\ ops' = Append(ops, <<"insert_one", fid>>)
                                 /\ UNCHANGED <<files_collection, jobs, out>>
                            ELSE /\ ops' =
                                    IF replied
                                    THEN ops \o << <<"insert_one", fid>>,
                                                   <<"run_once", <<update.message_id>> >> >>
                                    ELSE Append(ops, <<"insert_one", fid>>)
                                 /\ files_collection' =
                                        insert_one(files_collection,
                                            Doc(fid, link.value, FALSE,
                                                Len(files_collection) + 1))
                                 /\ out' = Append(out,
                                        reply_text(update, UploadedText(link.value),
                                                   revoke_keyboard(fid)))
                                 /\ pc' = After(replied, "done")
                                 /\ jobs' = IF replied
                                            THEN Append(jobs, update.message_id)
                                            ELSE jobs
    /\ UNCHANGED <<FORCE_SUB_CHANNELS, cleanup, update, channel_i, answers, asked, subscribed,
                   file_doc, files_before, revoked_ok, reject_seen>>

----------------------------------------------------------------------------
(* revoke_link *)

RevokeDeniedText == <<"Only admin can revoke.">>
RevokedText == <<"Link revoked!">>

\* await query.answer()
revoke_link_answer ==
    /\ pc = "revoke_link"
    /\ out' = Append(out, query_answer(update))
    /\ \E ok \in BOOLEAN : pc' = After(ok, "revoke_check")
    /\ UNCHANGED <<FORCE_SUB_CHANNELS, cleanup, files_collection, jobs, update, channel_i,
                   answers, asked, subscribed, file_id, file_doc, ops, files_before,
                   revoked_ok, reject_seen>>

\* A caller other than the administrator: say so and return.
revoke_link_not_admin ==
    /\ pc = "revoke_check"
    /\ ~is_admin(update.user)
    /\ out' = Append(out, edit_message_text(update, RevokeDeniedText))
    /\ \E ok \in BOOLEAN : pc' = After(ok, "done")
    /\ UNCHANGED <<FORCE_SUB_CHANNELS, cleanup, files_collection, jobs, update, channel_i,
                   answers, asked, subscribed, file_id, file_doc, ops, files_before,
                   revoked_ok, reject_seen>>

\* The administrator: strip the marker and set revoked on the record.
revoke_link_update_one ==
    /\ pc = "revoke_check"
    /\ is_admin(update.user)
    /\ file_id' = revoke_file_id(update.data)
    /\ ops' = Append(ops, <<"update_one", file_id'>>)
    /\ \E ok \in BOOLEAN :
        /\ pc' = After(ok, "revoke_edit")
        /\ files_collection' =
            IF ok THEN update_one(files_collection, file_id') ELSE files_collection
        /\ revoked_ok' =
            IF ok /\ MatchingIndexes(files_collection, file_id') # {}
            THEN revoked_ok \cup {file_id'} ELSE revoked_ok
    /\ UNCHANGED <<FORCE_SUB_CHANNELS, cleanup, jobs, update, channel_i, answers, asked,
                   subscribed, file_doc, out, files_before, reject_seen>>

\* Confirm on the message that carried the button.
revoke_link_confirm ==
    /\ pc = "revoke_edit"
    /\ out' = Append(out, edit_message_text(update, RevokedText))
    /\ \E ok \in BOOLEAN : pc' = After(ok, "done")
    /\ UNCHANGED <<FORCE_SUB_CHANNELS, cleanup, files_collection, jobs, update, channel_i,
                   answers, asked, subscribed, file_id, file_doc, ops, files_before,
                   revoked_ok, reject_seen>>

----------------------------------------------------------------------------
(* delete_message, the callback of the run_once jobs *)

MaxJobs == 2

\* context.bot.id: the bot's own user id, which is no user's chat.
bot_id == 0

RemoveAt(q, j) == SubSeq(q, 1, j - 1) \o SubSeq(q, j + 1, Len(q))

DeleteCall(message_id, raised) ==
    [chat_id |-> bot_id, message_id |-> message_id, raised |-> raised]

\* Variant of delete_message: a failed delete leaves the job armed, to be
\* tried again.
delete_message_retries ==
    /\ \E j \in DOMAIN jobs : \E ok \in BOOLEAN :
        /\ cleanup' = Append(cleanup, DeleteCall(jobs[j], ~ok))
        /\ jobs' = IF ok THEN RemoveAt(jobs, j) ELSE jobs
    /\ UNCHANGED <<FORCE_SUB_CHANNELS, files_collection, pc, update, channel_i,
                   answers, asked, subscribed, file_id, file_doc, out, ops,
                   files_before, revoked_ok, reject_seen>>

\* A job comes due: the job queue drops it (run_once) and calls the
\* callback, which asks for the deletion of message job.data in chat
\* context.bot.id inside try / except: pass.  Jobs run beside the handlers,
\* so the step may come between any two handler steps.
delete_message ==
    /\ \E j \in DOMAIN jobs : \E ok \in BOOLEAN :
        /\ cleanup' = Append(cleanup, DeleteCall(jobs[j], ~ok))
        /\ jobs' = RemoveAt(jobs, j)
    /\ UNCHANGED <<FORCE_SUB_CHANNELS, files_collection, pc, update, channel_i,
                   answers, asked, subscribed, file_id, file_doc, out, ops,
                   files_before, revoked_ok, reject_seen>>

----------------------------------------------------------------------------
(* The specification *)

Next ==
    \/ Dispatch
    \/ handler_ends
    \/ is_subscribed_query
    \/ is_subscribed_return
    \/ start_not_subscribed
    \/ start_find_one
    \/ start_greeting
    \/ start_accessing
    \/ start_send_document
    \/ start_link_invalid
    \/ upload
    \/ handle_media_not_admin
    \/ handle_media_admin
    \/ revoke_link_answer
    \/ revoke_link_not_admin
    \/ revoke_link_update_one
    \/ revoke_link_confirm

Spec == Init /\ [][Next]_vars

\* Job queues to run delete_message on: up to MaxJobs armed entries, each
\* holding a message id as run_once(..., data=message.message_id) stores it.
ArmedJobs ==
    UNION { [1..n -> MessageIds] : n \in 0..MaxJobs }

\* The start of a run that exercises delete_message: the job queue holds
\* armed entries; the rest is as in Init, over one channel and one record
\* at most.
InitCleanup ==
    /\ FORCE_SUB_CHANNELS \in { c \in ChannelLists : Len(c) <= 1 }
    /\ files_collection \in { StoreOf(s) : s \in { t \in InitialStores : Len(t) <= 1 } }
    /\ jobs \in ArmedJobs
    /\ pc = "idle"
    /\ update = NoUpdate
    /\ channel_i = 1
    /\ answers = <<>>
    /\ asked = <<>>
    /\ subscribed = <<>>
    /\ file_id = <<>>
    /\ file_doc = <<>>
    /\ out = <<>>
    /\ ops = <<>>
    /\ files_before = files_collection
    /\ revoked_ok = {}
    /\ reject_seen = NoRejects
    /\ cleanup = <<>>

NextCleanup ==
    \/ Next
    \/ delete_message

SpecCleanup == InitCleanup /\ [][NextCleanup]_vars

----------------------------------------------------------------------------
(* Vocabulary of the claims *)

SatisfyingStatuses == {"member", "administrator", "creator"}

Unsatisfied(r) == r = "ERROR" \/ r \notin SatisfyingStatuses

Sends == { k \in DOMAIN out : out[k].op = "send_document" }

HandlerEnded == pc \in {"done", "raised"}

\* The token a redemption request carries, once extracted from its payload.
IsRedemption == update.kind = "start" /\ has_file_arg(update.args)
RequestToken == start_file_id(update.args)

\* resolve(token): the registry's answer to a lookup by token.
Resolve(t) == find_one(files_collection, t)

LinkInvalidReply == reply_text(update, LinkInvalidText, <<>>)
GatePrompt ==
    reply_text(update, SubscribePrompt, subscribe_keyboard(FORCE_SUB_CHANNELS))

----------------------------------------------------------------------------
(* C1 *)

\* C1: an artifact is sent only while handling a redemption request whose
\* membership gate returned True and whose lookup of the request's token
\* found a record that is not revoked; it goes to the requester and is that
\* record's artifact.  No other handler sends an artifact.
C1_SendOnlyGatedUnrevoked ==
    \A k \in Sends :
        /\ IsRedemption
        /\ subscribed = <<TRUE>>
        /\ <<"find_one", RequestToken>> \in { ops[j] : j \in DOMAIN ops }
        /\ file_doc # <<>>
        /\ file_doc[1].file_id = RequestToken
        /\ file_doc[1].revoked = FALSE
        /\ out[k].chat = update.user
        /\ out[k].document = file_doc[1].file_id

C1_Witness == Sends # {} /\ Len(FORCE_SUB_CHANNELS) >= 1

----------------------------------------------------------------------------
(* C2 *)

\* C2: with at least one configured channel, when a membership query of the
\* call raised or gave a status outside member/administrator/creator,
\* is_subscribed returns False; no such answer is ever passed over by the
\* loop.
C2_GateClosesOnFailure ==
    (Len(FORCE_SUB_CHANNELS) >= 1 /\ \E k \in DOMAIN answers : Unsatisfied(answers[k]))
        => (pc # "is_subscribed" /\ subscribed = <<FALSE>>)

C2_Witness ==
    /\ pc = "start"
    /\ subscribed = <<FALSE>>
    /\ Len(answers) = 2
    /\ answers[2] = "ERROR"

----------------------------------------------------------------------------
(* C3 *)

\* C3: once a revoke has matched and updated the record of a token, a lookup
\* of that token never again yields a record with revoked = False.
C3_RevocationMonotonic ==
    \A t \in revoked_ok : Resolve(t) = <<>> \/ Resolve(t)[1].revoked = TRUE

\* A redemption of a revoked token has looked the record up, after the
\* token had been revoked.
C3_Witness ==
    /\ IsRedemption
    /\ pc = "start_found"
    /\ RequestToken \in revoked_ok
    /\ file_doc # <<>>

----------------------------------------------------------------------------
(* C4 *)

----------------------------------------------------------------------------
(* C5 *)

AccessDeniedResponse ==
    IF update.kind = "media"
    THEN reply_text(update, UploadDeniedText, <<>>)
    ELSE edit_message_text(update, RevokeDeniedText)

\* C5: a media message or a revoke callback from anyone but the
\* administrator leaves the registry as it was, makes no store write and
\* arms no job, and once handled has produced the AccessDenied response.
C5_NonAdminExclusion ==
    (update.kind \in {"media", "callback"} /\ update.user # ADMIN_ID) =>
        /\ files_collection = files_before
        /\ ops = <<>>
        /\ jobs = <<>>
        /\ HandlerEnded => \E k \in DOMAIN out : out[k] = AccessDeniedResponse

\* The part of C5 that does hold: no registry write, no job, and no
\* response other than AccessDenied (after the callback's acknowledgement).
C5_NonAdminFrame ==
    (update.kind \in {"media", "callback"} /\ update.user # ADMIN_ID) =>
        /\ files_collection = files_before
        /\ ops = <<>>
        /\ jobs = <<>>
        /\ \A k \in DOMAIN out :
            out[k] = AccessDeniedResponse \/ out[k] = query_answer(update)

----------------------------------------------------------------------------
(* C6 *)

\* C6: when the administrator's supported media message has been handled,
\* the registry holds exactly one record more than before, that record has
\* revoked = False, and the reply carries a revoke button whose payload is
\* revoke_<token of the new record>.
C6_UploadCreatesRecord ==
    (update.kind = "media" /\ update.user = ADMIN_ID
        /\ media_file_id(update.message) # <<>> /\ HandlerEnded) =>
        /\ Len(files_collection) = Len(files_before) + 1
        /\ SubSeq(files_collection, 1, Len(files_before)) = files_before
        /\ files_collection[Len(files_collection)].revoked = FALSE
        /\ \E k \in DOMAIN out : \E b \in DOMAIN out[k].markup :
            out[k].markup[b].callback_data =
                <<"revoke_">> \o files_collection[Len(files_collection)].file_id

----------------------------------------------------------------------------
(* C7 *)

RejectObservations == reject_seen["unknown"] \cup reject_seen["revoked"]

\* C7: a redemption of a token without a record and a redemption of a token
\* whose record is revoked show the same calls to the requester and make no
\* write: any two rejected redemptions are observed alike.
C7_UnknownAndRevokedAlike ==
    \A a, b \in RejectObservations : a = b /\ a.effects = <<>>

C7_Witness == reject_seen["unknown"] # {} /\ reject_seen["revoked"] # {}

----------------------------------------------------------------------------
(* C8 *)

\* A t.me url leads to a channel when the channel is public and the url
\* ends in its username.
RefersTo(url, channel) ==
    channel[1] = "@" /\ url = <<"https://t.me/">> \o Tail(channel)

RedeemsValidToken == IsRedemption /\ deliverable(Resolve(RequestToken))

\* C8: a redemption of a valid token by a user the gate denied issues one
\* response, the prompt, with a button that leads to every channel whose
\* query was unsatisfied, and makes no registry call.
C8_GateFailureListsUnmet ==
    (RedeemsValidToken /\ subscribed = <<FALSE>> /\ HandlerEnded) =>
        /\ Len(out) = 1
        /\ out[1].op = "reply_text" /\ out[1].text = SubscribePrompt
        /\ \A k \in DOMAIN answers : Unsatisfied(answers[k]) =>
            \E b \in DOMAIN out[1].markup :
                RefersTo(out[1].markup[b].url, FORCE_SUB_CHANNELS[k])
        /\ ops = <<>>

\* The part of C8 that does hold: the prompt is the only response, it has a
\* button for every configured channel, right for those given as
\* @username, and no registry call is made once the gate has denied.
C8_GateFailureNoRead ==
    (IsRedemption /\ subscribed = <<FALSE>>) =>
        /\ ops = <<>>
        /\ file_doc = <<>>
        /\ HandlerEnded =>
            /\ Len(out) = 1
            /\ out[1].op = "reply_text" /\ out[1].text = SubscribePrompt
            /\ Len(out[1].markup) = Len(FORCE_SUB_CHANNELS)
            /\ \A k \in DOMAIN FORCE_SUB_CHANNELS :
                FORCE_SUB_CHANNELS[k][1] = "@" =>
                    RefersTo(out[1].markup[k].url, FORCE_SUB_CHANNELS[k])

----------------------------------------------------------------------------
(* C9 *)

\* C9: is_subscribed returns True exactly when every configured channel was
\* queried and each query gave member, administrator or creator; with no
\* configured channel it returns True.
C9_AllowedIffAllSatisfied ==
    pc = "start" =>
        /\ subscribed # <<>>
        /\ subscribed[1] =
            (/\ Len(answers) = Len(FORCE_SUB_CHANNELS)
             /\ \A k \in DOMAIN answers : answers[k] \in SatisfyingStatuses)
        /\ FORCE_SUB_CHANNELS = <<>> => subscribed = <<TRUE>>

C9_Witness ==
    /\ pc = "start"
    /\ subscribed = <<TRUE>>
    /\ Len(FORCE_SUB_CHANNELS) = 2
    /\ answers = <<"creator", "member">>

----------------------------------------------------------------------------
(* C10 *)

----------------------------------------------------------------------------
(* C11 *)

\* What the administrator is shown by a revoke that ran to its end.
RevokeOkResponse ==
    <<query_answer(update), edit_message_text(update, RevokedText)>>

IsAdminRevoke == update.kind = "callback" /\ is_admin(update.user)

\* The token of a revoke request, once extracted from the callback data.
RevokeToken == revoke_file_id(update.data)

\* C11 (auxiliary, holds): the administrator's revoke of a token that has a
\* record, run to its end, is answered with RevokeOkResponse.
C11_RevokeOkResponse ==
    (IsAdminRevoke /\ pc = "done" /\ Resolve(RevokeToken) # <<>>)
        => out = RevokeOkResponse

\* C11: when the administrator revokes a token that has no record, the
\* registry is left unchanged and what the administrator is shown differs
\* from what a successful revoke of an existing token shows.
C11_NotFoundDistinguishable ==
    (IsAdminRevoke /\ pc = "done" /\ MatchingIndexes(files_before, RevokeToken) = {})
        => /\ files_collection = files_before
           /\ out # RevokeOkResponse

----------------------------------------------------------------------------
(* C12 *)

IsAdminUpload ==
    /\ update.kind = "media"
    /\ is_admin(update.user)
    /\ media_file_id(update.message) # <<>>

\* The handler ended and no store or transport call it made has failed: it
\* returned, or it stopped before it made any.
NoCallFailed == pc = "done" \/ (pc = "raised" /\ out = <<>> /\ ops = <<>>)

\* The id Telegram gives the message the bot sends in reply to message m:
\* another message than m.
ConfirmationOf(m) == IF m = "m1" THEN "r1" ELSE "r0"

\* C12: an administrator's upload of supported media in which no call failed
\* has replied with the confirmation and has armed one cleanup entry, whose
\* target is that confirmation message; every delete the scheduler has made
\* was asked for in a chat of a user.
C12_CleanupTargetsConfirmation ==
    /\ (IsAdminUpload /\ NoCallFailed)
        => /\ \E k \in DOMAIN out : out[k].markup = revoke_keyboard(file_id)
           /\ \E j \in DOMAIN jobs : jobs[j] = ConfirmationOf(update.message_id)
    /\ \A k \in DOMAIN cleanup : cleanup[k].chat_id \in Users

----------------------------------------------------------------------------
(* C13 *)

\* C13: a redemption that has delivered its artifact has armed the expiry
\* scheduler: the job queue was called and holds an entry for the message.
C13_DeliverArmsCleanup ==
    (IsRedemption /\ Sends # {} /\ pc = "done")
        => /\ \E k \in DOMAIN ops : ops[k][1] = "run_once"
           /\ jobs # <<>>

----------------------------------------------------------------------------
(* C14, under SpecCleanup *)

\* C14: cleanup is fire-and-forget and at-most-once.  Every step that makes
\* a delete-message call makes one call, for one armed entry, and takes that
\* entry off the job queue whether the call fails or not (it is not armed
\* again, so no entry gets a second call); the step reports nothing to any
\* user, disturbs no handler and leaves the registry as it is.
C14_CleanupFireAndForget ==
    [][cleanup' # cleanup =>
        /\ \E j \in DOMAIN jobs :
            /\ jobs' = RemoveAt(jobs, j)
            /\ \E failed \in BOOLEAN :
                cleanup' = Append(cleanup,
                    [chat_id |-> bot_id, message_id |-> jobs[j], raised |-> failed])
        /\ out' = out
        /\ pc' = pc
        /\ update' = update
        /\ ops' = ops
        /\ files_collection' = files_collection]_vars

\* A delete has failed while a handler was at work, and all entries have run.
C14_Witness ==
    /\ \E k \in DOMAIN cleanup : cleanup[k].raised
    /\ Len(cleanup) >= 2
    /\ jobs = <<>>
    /\ pc \notin {"idle", "raised"}

----------------------------------------------------------------------------
(* C15 *)

\* The response that marks each terminal state of a flow.
RedemptionTerminals ==
    { GatePrompt, LinkInvalidReply, reply_text(update, GreetingText, <<>>) }
        \cup { send_document(update.user, d) : d \in FileIds }

UploadTerminals ==
    { reply_text(update, UploadDeniedText, <<>>),
      reply_text(update, UnsupportedText, <<>>),
      reply_text(update, UploadedText(link_text(file_id)), revoke_keyboard(file_id)) }

FlowTerminals ==
    IF update.kind = "start" THEN RedemptionTerminals ELSE UploadTerminals

\* C15: a redemption or upload flow that has ended, whatever calls failed on
\* its way, has issued the response of exactly one of its terminal states,
\* as its last call, and has sent the artifact at most once.
C15_FlowsReachOneTerminalState ==
    (update.kind \in {"start", "media"} /\ HandlerEnded)
        => /\ Cardinality({ k \in DOMAIN out : out[k] \in FlowTerminals }) = 1
           /\ out[Len(out)] \in FlowTerminals
           /\ Cardinality(Sends) <= 1

----------------------------------------------------------------------------
(* C16 *)

\* The record a token had when the current update was dispatched.
ResolvedBefore(t) == find_one(files_before, t)

\* C16: revoke is idempotent.  Once the administrator's revoke has made its
\* store update, making the same update again would change nothing; a revoke
\* of a token that was already revoked leaves the registry as it was; and
\* every revoke that ran to its end shows the administrator the same
\* response, first or repeated.
C16_RevokeIdempotent ==
    IsAdminRevoke =>
        /\ pc \in {"revoke_edit", "done"}
            => update_one(files_collection, RevokeToken) = files_collection
        /\ (ResolvedBefore(RevokeToken) # <<>> /\ ResolvedBefore(RevokeToken)[1].revoked)
            => files_collection = files_before
        /\ pc = "done" => out = RevokeOkResponse

\* A token that a revoke has already updated is revoked again, to the end.
C16_Witness ==
    /\ IsAdminRevoke
    /\ pc = "done"
    /\ RevokeToken \in revoked_ok
    /\ ResolvedBefore(RevokeToken) # <<>>
    /\ ResolvedBefore(RevokeToken)[1].revoked

----------------------------------------------------------------------------
(* C17 *)

\* The payload without its leading marker.
StripLeading(payload) == Tail(payload)

\* C17: token round trip.  The token a redemption looks up is its payload
\* without the leading file_ marker, the token a revoke updates is its
\* callback data without the leading revoke_ marker, and a redemption whose
\* payload does not start with file_ makes no registry call.
C17_TokenRoundTrip ==
    /\ \A k \in DOMAIN ops :
        /\ ops[k][1] = "find_one" => ops[k][2] = StripLeading(update.args[1])
        /\ ops[k][1] = "update_one" => ops[k][2] = StripLeading(update.data)
    /\ (update.kind = "start" /\ ~has_file_arg(update.args)) => ops = <<>>

----------------------------------------------------------------------------
(* C18 *)

InGate == pc = "is_subscribed" \/ (pc = "start" /\ update.kind = "start")

\* C18: the gate asks the channels in configuration order, from the first
\* one in every invocation, one answer per channel asked; no channel is
\* asked after one whose query erred or gave an unsatisfying status; a True
\* result has asked every channel; and up to its return the gate has issued
\* no transport call, made no store or job-queue call and left the registry
\* and the job queue as they were.
C18_GateOrderShortCircuitFrame ==
    /\ Len(asked) <= Len(FORCE_SUB_CHANNELS)
    /\ asked = SubSeq(FORCE_SUB_CHANNELS, 1, Len(asked))
    /\ InGate =>
        /\ Len(answers) = Len(asked)
        /\ \A k \in 1..(Len(answers) - 1) : ~Unsatisfied(answers[k])
        /\ subscribed = <<TRUE>> => Len(asked) = Len(FORCE_SUB_CHANNELS)
        /\ subscribed = <<FALSE>> => Unsatisfied(answers[Len(answers)])
        /\ out = <<>>
        /\ ops = <<>>
        /\ files_collection = files_before

\* The gate has stopped at an unsatisfied channel that is not the last one.
C18_Witness ==
    /\ pc = "start"
    /\ subscribed = <<FALSE>>
    /\ Len(asked) >= 1
    /\ Len(asked) < Len(FORCE_SUB_CHANNELS)

----------------------------------------------------------------------------
(* C19 *)

----------------------------------------------------------------------------
(* C20 *)

\* Everything of a record but its revoked flag.
Identity(doc) == [doc EXCEPT !.revoked = FALSE]

====
